---- MODULE Spec2Model ----
(***************************************************************************)
(* The JSON document store of backend/main.py: four files (events, notes,  *)
(* chat, massnahmen), one module-level threading.Lock, and the request     *)
(* handlers that load a document, change it in memory and write it back.   *)
(* FastAPI runs the synchronous handlers on a thread pool, so handlers of  *)
(* different requests interleave at every point where _file_lock is not    *)
(* held.  A file's text is modelled by the JSON value it denotes.          *)
(***************************************************************************)
EXTENDS Integers, Sequences, FiniteSets, TLC

\* ------------------------------------------------------------- bounds
\* Hours offered to add_event are 0..MaxHour.
MaxHour == 2
\* add_event is offered while the persisted document holds fewer than
\* MaxEvents events; delete_event is offered the indices 0..MaxEvents.
MaxEvents == 3
\* create_note is offered while the persisted next_id is at most MaxId.
MaxId == 3
\* create_massnahme is offered while the category holds fewer than MaxItems.
MaxItems == 2
\* add_chat_message is offered while the persisted document holds fewer than
\* MaxMessages messages.
MaxMessages == 3

Threads == {"t1", "t2", "t3"}
\* The two threads of the add_event race.
Racers == {"t1", "t2"}
\* The one caller of the sequential specifications.
Main == "t1"

Days == {"Monday", "Tuesday"}
Titles == {"standup"}
Durations == {1, 2}
Texts == {"a", "b"}
\* ChatMessage.role, and a role outside its pattern.
Roles == {"user", "assistant"}
OfferedRoles == {"user", "assistant", "system"}
\* What get_ai_chat_completion returns: the completion's text, or the
\* apology of its except branch.
Replies == {"reply", "I apologize"}

\* ------------------------------------------------------- program constants
EVENTS_FILE == "events.json"
NOTES_FILE == "notes.json"
CHAT_FILE == "messages.json"
MASSNAHMEN_FILE == "massnahmen.json"
Files == {EVENTS_FILE, NOTES_FILE, CHAT_FILE, MASSNAHMEN_FILE}

\* Note.category and the list _read_notes checks against.
NoteCategories == {"personal", "work", "free time"}
\* The category list of the massnahmen handlers.
MassnahmenCategories == {"einmalige_massnahmen", "arbeitsplatz", "work_life_balance"}
Priorities == {"hoch", "mittel", "niedrig"}

VARIABLES
    fs,         \* path -> content of the file
    file_lock,  \* "free", or the thread holding _file_lock
    pc,         \* thread -> where its handler stands
    req,        \* thread -> the request it serves
    local,      \* thread -> the document its handler loaded
    result,     \* thread -> HTTP status of the response (0: none yet)
    before,     \* thread -> the documents when its request arrived
    issued,     \* the ids create_note has assigned so far
    ai_response, \* thread -> the text get_ai_chat_completion returned
    response    \* thread -> the body of the response (<<>>: none)

vars == <<fs, file_lock, pc, req, local, result, before, issued,
          ai_response, response>>

\* ------------------------------------------------------------ file contents
\* A file is absent or holds text; text written by json.dumps of a dict is
\* [kind |-> "dict", data |-> the value].  Text of other kinds: "empty"
\* (nothing but white space), "invalid" (json.loads raises), "array" and
\* "null" (JSON values that are not objects).
Absent == [kind |-> "absent"]
json_dumps(value) == [kind |-> "dict", data |-> value]

\* Exists that never finds the file.
ExistsNever(files, path) == FALSE

Exists(files, path) == files[path].kind # "absent"

EmptyEvents == <<>>
DefaultNotes == [notes |-> <<>>, next_id |-> 1]
DefaultChat == [messages |-> <<>>]
DefaultMassnahmen == [c \in MassnahmenCategories |-> <<>>]

\* What _ensure_file_exists writes to a missing file.
DefaultText(path) ==
    CASE path = EVENTS_FILE -> json_dumps(EmptyEvents)
      [] path = NOTES_FILE -> json_dumps(DefaultNotes)
      [] path = CHAT_FILE -> json_dumps(DefaultChat)

\* -------------------------------------------------------------- dict helpers
\* d.get(key, default)
Get(d, key, default) == IF key \in DOMAIN d THEN d[key] ELSE default
\* d[key] = value
Put(d, key, value) ==
    [k \in DOMAIN d \cup {key} |-> IF k = key THEN value ELSE d[k]]
\* del d[key]
DelKey(d, key) == [k \in DOMAIN d \ {key} |-> d[k]]
\* del s[index], index counted from 0
DelIndex(s, index) ==
    [j \in 1..(Len(s) - 1) |-> IF j <= index THEN s[j] ELSE s[j + 1]]

\* ------------------------------------------------------------------- loads
\* isinstance(i, dict) for an entry of a list: an entry that is not an
\* object is written [json |-> its type].
IsObject(value) == "json" \notin DOMAIN value

\* The body of _read_events under the lock: anything but a JSON object
\* reads as {}.  Of an object it keeps the days that hold a list and, of a
\* list, the entries that are objects; every day of the contents modelled
\* here holds a list.
_read_events(files) ==
    LET raw == files[EVENTS_FILE] IN
    IF raw.kind = "dict"
    THEN [day \in DOMAIN raw.data |-> SelectSeq(raw.data[day], IsObject)]
    ELSE EmptyEvents

\* NormalizedNote that reads every category as "personal".
NormalizedNotePersonal(item) ==
    [id |-> item.id, text |-> item.text, category |-> "personal"]

\* The body of _read_notes under the lock: of the entries it keeps the
\* objects that have an id and a text, and a note's category outside the
\* list, or missing, is read as "personal".
NormalizedNote(item) ==
    LET category == Get(item, "category", "personal") IN
    [id |-> item.id, text |-> item.text,
     category |-> IF category \in NoteCategories THEN category ELSE "personal"]

IsNote(item) == IsObject(item) /\ "id" \in DOMAIN item /\ "text" \in DOMAIN item

_read_notes(files) ==
    LET raw == files[NOTES_FILE] IN
    IF raw.kind = "dict"
    THEN LET notes == SelectSeq(Get(raw.data, "notes", <<>>), IsNote)
         IN  [notes |-> [j \in 1..Len(notes) |-> NormalizedNote(notes[j])],
              next_id |-> Get(raw.data, "next_id", 1)]
    ELSE DefaultNotes

\* _read_chat that takes a top-level JSON array for the list of messages.
_read_chat_array(files) ==
    LET raw == files[CHAT_FILE] IN
    IF raw.kind = "dict"
    THEN [messages |-> Get(raw.data, "messages", <<>>)]
    ELSE IF raw.kind = "array" THEN [messages |-> raw.data] ELSE DefaultChat

\* The body of _read_chat under the lock: of the entries it keeps the
\* objects that have a role and a text.
IsMessage(item) ==
    IsObject(item) /\ "role" \in DOMAIN item /\ "text" \in DOMAIN item

_read_chat(files) ==
    LET raw == files[CHAT_FILE] IN
    IF raw.kind = "dict"
    THEN LET msgs == SelectSeq(Get(raw.data, "messages", <<>>), IsMessage)
         IN  [messages |-> [j \in 1..Len(msgs) |->
                              [role |-> msgs[j].role, text |-> msgs[j].text]]]
    ELSE DefaultChat

\* _read_massnahmen that returns the stored object as it is.
_read_massnahmen_raw(files) ==
    LET raw == files[MASSNAHMEN_FILE] IN
    IF raw.kind = "dict" THEN raw.data ELSE DefaultMassnahmen

\* The body of _read_massnahmen under the lock: a missing file, or a missing
\* category, reads as empty.
_read_massnahmen(files) ==
    LET raw == files[MASSNAHMEN_FILE] IN
    IF raw.kind = "dict"
    THEN [c \in MassnahmenCategories |-> Get(raw.data, c, <<>>)]
    ELSE DefaultMassnahmen

\* The four documents as a load returns them.
Documents(files) ==
    [events |-> _read_events(files), notes |-> _read_notes(files),
     chat |-> _read_chat(files), massnahmen |-> _read_massnahmen(files)]

\* --------------------------------------------------------------- events
\* Overlaps with a one-sided test: a new interval that ends inside an
\* existing one passes.
OverlapsOneSided(new_start, new_end, existing) ==
    LET existing_start == Get(existing, "hour", 0)
        existing_end == existing_start + Get(existing, "duration", 1)
    IN  new_start < existing_end /\ new_start >= existing_start

\* Overlaps with closed intervals: touching intervals count as overlapping.
OverlapsClosed(new_start, new_end, existing) ==
    LET existing_start == Get(existing, "hour", 0)
        existing_end == existing_start + Get(existing, "duration", 1)
    IN  new_start <= existing_end /\ new_end >= existing_start

\* The test of add_event's loop: the new interval meets an existing entry's.
Overlaps(new_start, new_end, existing) ==
    LET existing_start == Get(existing, "hour", 0)
        existing_end == existing_start + Get(existing, "duration", 1)
    IN  new_start < existing_end /\ new_end > existing_start

\* add_event raises 400 at the first existing entry of the day that overlaps.
add_event_conflict(data, payload) ==
    LET day_events == Get(data, payload.day, <<>>)
        new_start == payload.event.hour
        new_end == new_start + payload.event.duration
    IN  \E j \in 1..Len(day_events) : Overlaps(new_start, new_end, day_events[j])

\* Otherwise it appends the event to the day's list.
add_event_data(data, payload) ==
    Put(data, payload.day, Append(Get(data, payload.day, <<>>), payload.event))

\* delete_event_missing that lets the index one past the end through.
delete_event_missing_inclusive(data, payload) ==
    \/ payload.day \notin DOMAIN data
    \/ payload.index < 0
    \/ payload.index > Len(data[payload.day])

\* delete_event raises 404 for an absent day or an index outside the list.
delete_event_missing(data, payload) ==
    \/ payload.day \notin DOMAIN data
    \/ payload.index < 0
    \/ payload.index >= Len(data[payload.day])

\* delete_event_data that keeps the day whatever is left of its list.
delete_event_data_keep_day(data, payload) ==
    Put(data, payload.day, DelIndex(data[payload.day], payload.index))

\* Otherwise it deletes the entry and, when the day's list is empty, the day.
delete_event_data(data, payload) ==
    LET day_events == DelIndex(data[payload.day], payload.index) IN
    IF Len(day_events) = 0
    THEN DelKey(data, payload.day)
    ELSE Put(data, payload.day, day_events)

\* Event(**item) raises a ValidationError unless the item has a non-empty
\* title, an hour within 0..23 and, if any, a duration within 1..24.
valid_event(item) ==
    /\ "title" \in DOMAIN item /\ item.title # ""
    /\ "hour" \in DOMAIN item /\ item.hour \in 0..23
    /\ Get(item, "duration", 1) \in 1..24

\* Event(**item) of a valid item: the defaults fill the missing fields.
Event(item) ==
    [title |-> item.title, description |-> Get(item, "description", ""),
     hour |-> item.hour, duration |-> Get(item, "duration", 1)]

\* coerced[day] = [Event(**item) for item in items] goes through.
valid_events(data) ==
    \A day \in DOMAIN data : \A j \in 1..Len(data[day]) : valid_event(data[day][j])

\* EventsResponse(events=coerced)
EventsResponse(data) ==
    [day \in DOMAIN data |-> [j \in 1..Len(data[day]) |-> Event(data[day][j])]]

\* ---------------------------------------------------------------- notes
\* invalid_note_category with one more name let through.
invalid_note_category_lenient(category) ==
    category \notin NoteCategories \cup {"urgent"}

\* CreateNoteRequest.category and UpdateNoteRequest.category carry the
\* pattern ^(personal|work|free time)$: a request body with another category
\* fails validation and the handler is not entered.
invalid_note_category(category) == category \notin NoteCategories

\* create_note_state that numbers the new note by the length of the list.
create_note_state_by_length(state, payload) ==
    [notes |-> Append(state.notes,
                      [id |-> Len(state.notes) + 1, text |-> payload.text,
                       category |-> payload.category]),
     next_id |-> state.next_id + 1]

\* create_note_state that leaves next_id as it was.
create_note_state_no_increment(state, payload) ==
    [notes |-> Append(state.notes,
                      [id |-> state.next_id, text |-> payload.text,
                       category |-> payload.category]),
     next_id |-> state.next_id]

\* create_note appends a note with id next_id and increments next_id.
create_note_state(state, payload) ==
    [notes |-> Append(state.notes,
                      [id |-> state.next_id, text |-> payload.text,
                       category |-> payload.category]),
     next_id |-> state.next_id + 1]

\* update_note raises 404 when its loop finds no note with the id.
update_note_missing(state, payload) ==
    \A j \in 1..Len(state.notes) : state.notes[j].id # payload.note_id

\* update_note_state whose loop rewrites every note, the id test left out.
update_note_state_every(state, payload) ==
    [state EXCEPT !.notes = [j \in 1..Len(state.notes) |->
        [state.notes[j] EXCEPT !.text = payload.text,
                               !.category = payload.category]]]

\* Otherwise it rewrites text and category of the first note with the id.
update_note_state(state, payload) ==
    LET first == CHOOSE j \in 1..Len(state.notes) :
                    /\ state.notes[j].id = payload.note_id
                    /\ \A k \in 1..(j - 1) : state.notes[k].id # payload.note_id
    IN  [state EXCEPT !.notes[first].text = payload.text,
                      !.notes[first].category = payload.category]

\* delete_note_filtered that keeps the notes with a smaller id.
delete_note_filtered_below(state, payload) ==
    LET keep(n) == n.id < payload.note_id IN SelectSeq(state.notes, keep)

\* delete_note keeps the notes with another id ...
delete_note_filtered(state, payload) ==
    LET keep(n) == n.id # payload.note_id IN SelectSeq(state.notes, keep)

\* ... raises 404 when that keeps them all ...
delete_note_missing(state, payload) ==
    Len(delete_note_filtered(state, payload)) = Len(state.notes)

\* ... and otherwise stores the kept ones.
delete_note_state(state, payload) ==
    [state EXCEPT !.notes = delete_note_filtered(state, payload)]

\* ----------------------------------------------------------------- chat
\* CreateChatMessageRequest.role carries the pattern ^(user|assistant)$.
invalid_role(role) == role \notin Roles

\* add_chat_message_state that appends the request's message only.
add_chat_message_state_single(state, payload, reply) ==
    [state EXCEPT !.messages =
        Append(state.messages, [role |-> payload.role, text |-> payload.text])]

\* add_chat_message appends the request's message and, for role "user", an
\* assistant message holding what get_ai_chat_completion returned.
add_chat_message_state(state, payload, reply) ==
    LET msgs == Append(state.messages,
                       [role |-> payload.role, text |-> payload.text])
    IN  [state EXCEPT !.messages =
            IF payload.role = "user"
            THEN Append(msgs, [role |-> "assistant", text |-> reply])
            ELSE msgs]

\* ------------------------------------------------------------ massnahmen
\* invalid_category with one more name let through.
invalid_category_lenient(category) ==
    category \notin MassnahmenCategories \cup {"sonstiges"}

\* The first check of the three massnahmen handlers.
invalid_category(category) == category \notin MassnahmenCategories

\* update_massnahme and delete_massnahme raise 404 for an index outside the
\* category's list.
massnahme_missing(data, payload) ==
    \/ payload.index < 0
    \/ payload.index >= Len(Get(data, payload.category, <<>>))

create_massnahme_data(data, payload) ==
    Put(data, payload.category,
        Append(Get(data, payload.category, <<>>), payload.item))

update_massnahme_data(data, payload) ==
    Put(data, payload.category,
        [Get(data, payload.category, <<>>) EXCEPT ![payload.index + 1] = payload.item])

\* delete_massnahme_data that removes the last item, whatever the index.
delete_massnahme_data_pop(data, payload) ==
    Put(data, payload.category,
        SubSeq(Get(data, payload.category, <<>>), 1,
               Len(Get(data, payload.category, <<>>)) - 1))

\* del category_items[index]; data[category] = category_items
delete_massnahme_data(data, payload) ==
    Put(data, payload.category,
        DelIndex(Get(data, payload.category, <<>>), payload.index))

\* ------------------------------------------------------------- dispatch
\* The handlers that load and return a document without writing.
GetOps == {"get_events", "get_notes", "get_chat", "get_massnahmen"}

\* The file a handler loads first and, unless it is one of GetOps, writes.
FileOf(op) ==
    CASE op \in {"add_event", "delete_event", "get_events"} -> EVENTS_FILE
      [] op \in {"create_note", "update_note", "delete_note", "get_notes"}
            -> NOTES_FILE
      [] op \in {"add_chat_message", "get_chat"} -> CHAT_FILE
      [] op \in {"create_massnahme", "update_massnahme", "delete_massnahme",
                 "get_massnahmen"} -> MASSNAHMEN_FILE

\* The document a handler loads first.
Load(op, files) ==
    CASE FileOf(op) = EVENTS_FILE -> _read_events(files)
      [] FileOf(op) = NOTES_FILE -> _read_notes(files)
      [] FileOf(op) = CHAT_FILE -> _read_chat(files)
      [] FileOf(op) = MASSNAHMEN_FILE -> _read_massnahmen(files)

\* The return statement of a handler builds its response models from the
\* document without an exception: every Event(**item) validates, and the
\* massnahmen document has the three keys the statement subscripts.
responds(payload, document) ==
    CASE FileOf(payload.op) = EVENTS_FILE -> valid_events(document)
      [] FileOf(payload.op) = MASSNAHMEN_FILE ->
            MassnahmenCategories \subseteq DOMAIN document
      [] OTHER -> TRUE

\* The body a handler returns.
Response(payload, document) ==
    CASE FileOf(payload.op) = EVENTS_FILE -> EventsResponse(document)
      [] FileOf(payload.op) = NOTES_FILE -> document.notes
      [] FileOf(payload.op) = CHAT_FILE -> document.messages
      [] FileOf(payload.op) = MASSNAHMEN_FILE ->
            [c \in MassnahmenCategories |-> document[c]]

\* The status a handler answers with, given the document it loaded: that of
\* the HTTPException it raises, 500 for an exception nothing handles.
Status(payload, loaded) ==
    CASE payload.op \in GetOps ->
            IF responds(payload, loaded) THEN 200 ELSE 500
      [] payload.op = "add_chat_message" -> 200
      [] payload.op = "add_event" ->
            IF add_event_conflict(loaded, payload) THEN 400 ELSE 200
      [] payload.op = "delete_event" ->
            IF delete_event_missing(loaded, payload) THEN 404 ELSE 200
      [] payload.op = "create_note" -> 200
      [] payload.op = "update_note" ->
            IF update_note_missing(loaded, payload) THEN 404 ELSE 200
      [] payload.op = "delete_note" ->
            IF delete_note_missing(loaded, payload) THEN 404 ELSE 200
      [] payload.op = "create_massnahme" -> 200
      [] payload.op \in {"update_massnahme", "delete_massnahme"} ->
            IF massnahme_missing(loaded, payload) THEN 404 ELSE 200

\* The document a handler writes, given the document it loaded.
Updated(payload, loaded) ==
    CASE payload.op = "add_event" -> add_event_data(loaded, payload)
      [] payload.op = "delete_event" -> delete_event_data(loaded, payload)
      [] payload.op = "create_note" -> create_note_state(loaded, payload)
      [] payload.op = "update_note" -> update_note_state(loaded, payload)
      [] payload.op = "delete_note" -> delete_note_state(loaded, payload)
      [] payload.op = "create_massnahme" -> create_massnahme_data(loaded, payload)
      [] payload.op = "update_massnahme" -> update_massnahme_data(loaded, payload)
      [] payload.op = "delete_massnahme" -> delete_massnahme_data(loaded, payload)

\* The document a handler passes to its _write_* helper.
Written(payload, loaded, reply) ==
    IF payload.op = "add_chat_message"
    THEN add_chat_message_state(loaded, payload, reply)
    ELSE Updated(payload, loaded)

\* ------------------------------------------------------------ initial state
\* The module is imported: no handler runs, the lock is free, no file has
\* been written yet.
Init ==
    /\ fs = [path \in Files |-> Absent]
    /\ file_lock = "free"
    /\ pc = [t \in Threads |-> "idle"]
    /\ req = [t \in Threads |-> [op |-> "none"]]
    /\ local = [t \in Threads |-> <<>>]
    /\ result = [t \in Threads |-> 0]
    /\ before = [t \in Threads |-> Documents([path \in Files |-> Absent])]
    /\ issued = {}
    /\ ai_response = [t \in Threads |-> ""]
    /\ response = [t \in Threads |-> <<>>]

\* ------------------------------------------------------------ stored files
\* Texts a file may hold that json.loads does not turn into an object.
NotAnObject ==
    {[kind |-> "empty"], [kind |-> "invalid"], [kind |-> "null"],
     [kind |-> "array", data |-> <<>>],
     [kind |-> "array", data |-> <<[role |-> "user", text |-> "a"]>>]}

\* Objects events.json may hold: entries as add_event writes them, entries
\* that are not objects, and objects Event does not accept.
StoredEvents ==
    LET standup == [title |-> "standup", description |-> "", hour |-> 0,
                    duration |-> 1]
        brief == [title |-> "standup", hour |-> 1]
    IN  {json_dumps("Monday" :> <<standup>>),
         json_dumps("Monday" :> <<standup, brief>>),
         json_dumps("Monday" :> <<standup, [json |-> "string"]>>),
         json_dumps(("Monday" :> <<[json |-> "number"]>>)
                        @@ ("Tuesday" :> <<standup>>)),
         json_dumps("Monday" :> <<standup, [hour |-> 1]>>),
         json_dumps("Monday" :> <<[title |-> "standup", hour |-> 24]>>)}

\* Objects notes.json may hold.
StoredNotes ==
    {json_dumps([notes |-> <<[id |-> 1, text |-> "a", category |-> "work"]>>,
                 next_id |-> 2]),
     json_dumps([notes |-> <<[id |-> 1, text |-> "a", category |-> "urgent"],
                             [id |-> 2]>>,
                 next_id |-> 3]),
     json_dumps([notes |-> <<[id |-> 1, text |-> "a"]>>])}

\* Objects messages.json may hold.
StoredChat ==
    {json_dumps([messages |-> <<[role |-> "user", text |-> "a"],
                                [role |-> "assistant"]>>])}

\* Objects massnahmen.json may hold: with none, one or all of the three
\* categories, and with a key that is none of them.
StoredMassnahmen ==
    LET item == [title |-> "m", description |-> "x", priority |-> "hoch"]
    IN  {json_dumps(<<>>),
         json_dumps("arbeitsplatz" :> <<item>>),
         json_dumps(("arbeitsplatz" :> <<item>>) @@ ("sonstiges" :> <<item>>)),
         json_dumps([c \in MassnahmenCategories |-> <<item>>])}

StoredTexts(path) ==
    {Absent} \cup NotAnObject \cup
    CASE path = EVENTS_FILE -> StoredEvents
      [] path = NOTES_FILE -> StoredNotes
      [] path = CHAT_FILE -> StoredChat
      [] path = MASSNAHMEN_FILE -> StoredMassnahmen

\* The module is imported while the files hold what an earlier run, or
\* anything else that writes the directory, has left in them.
InitStored(paths) ==
    /\ \E path \in paths : \E text \in StoredTexts(path) :
          fs = [p \in Files |-> IF p = path THEN text ELSE Absent]
    /\ file_lock = "free"
    /\ pc = [t \in Threads |-> "idle"]
    /\ req = [t \in Threads |-> [op |-> "none"]]
    /\ local = [t \in Threads |-> <<>>]
    /\ result = [t \in Threads |-> 0]
    /\ before = [t \in Threads |-> Documents(fs)]
    /\ issued = {}
    /\ ai_response = [t \in Threads |-> ""]
    /\ response = [t \in Threads |-> <<>>]

\* --------------------------------------------------------- requests arrive
\* A thread of the pool takes a request and enters its handler, whose first
\* statement is a load.
Begin(t, payload) ==
    /\ pc[t] \in {"idle", "done"}
    /\ req' = [req EXCEPT ![t] = payload]
    /\ pc' = [pc EXCEPT ![t] = "check_events"]
    /\ local' = [local EXCEPT ![t] = <<>>]
    /\ result' = [result EXCEPT ![t] = 0]
    /\ before' = [before EXCEPT ![t] = Documents(fs)]
    /\ ai_response' = [ai_response EXCEPT ![t] = ""]
    /\ response' = [response EXCEPT ![t] = <<>>]
    /\ UNCHANGED <<fs, file_lock, issued>>

\* A massnahmen handler called with a category outside the list raises 400
\* before it loads anything.
Reject(t, payload) ==
    /\ pc[t] \in {"idle", "done"}
    /\ req' = [req EXCEPT ![t] = payload]
    /\ pc' = [pc EXCEPT ![t] = "done"]
    /\ local' = [local EXCEPT ![t] = <<>>]
    /\ result' = [result EXCEPT ![t] = 400]
    /\ before' = [before EXCEPT ![t] = Documents(fs)]
    /\ ai_response' = [ai_response EXCEPT ![t] = ""]
    /\ response' = [response EXCEPT ![t] = <<>>]
    /\ UNCHANGED <<fs, file_lock, issued>>

\* A request body that fails the validation of its model is answered 422
\* before the handler is entered.
Unprocessable(t, payload) ==
    /\ pc[t] \in {"idle", "done"}
    /\ req' = [req EXCEPT ![t] = payload]
    /\ pc' = [pc EXCEPT ![t] = "done"]
    /\ local' = [local EXCEPT ![t] = <<>>]
    /\ result' = [result EXCEPT ![t] = 422]
    /\ before' = [before EXCEPT ![t] = Documents(fs)]
    /\ ai_response' = [ai_response EXCEPT ![t] = ""]
    /\ response' = [response EXCEPT ![t] = <<>>]
    /\ UNCHANGED <<fs, file_lock, issued>>

\* The Event values requests carry: title non-empty, description "",
\* hour within 0..23, duration within 1..24.
Events == [title : Titles, description : {""}, hour : 0..MaxHour,
           duration : Durations]

\* The number of events a document holds.
RECURSIVE CountEvents(_)
CountEvents(data) ==
    IF DOMAIN data = {} THEN 0
    ELSE LET day == CHOOSE d \in DOMAIN data : TRUE
         IN  Len(data[day]) + CountEvents(DelKey(data, day))

CallAddEvent(t, days, events) ==
    /\ CountEvents(_read_events(fs)) < MaxEvents
    /\ \E day \in days, event \in events :
        Begin(t, [op |-> "add_event", day |-> day, event |-> event])

\* index: int = Query(..., ge=0): the requests that enter the handler carry
\* an index of at least 0.
CallDeleteEvent(t, days) ==
    \E day \in days, index \in 0..MaxEvents :
        Begin(t, [op |-> "delete_event", day |-> day, index |-> index])

CallCreateNote(t, texts, categories) ==
    \E text \in texts, category \in categories :
        LET payload == [op |-> "create_note", text |-> text,
                        category |-> category]
        IN  IF invalid_note_category(category)
            THEN Unprocessable(t, payload)
            ELSE /\ _read_notes(fs).next_id <= MaxId
                 /\ Begin(t, payload)

CallUpdateNote(t, texts, categories) ==
    \E note_id \in 1..MaxId, text \in texts, category \in categories :
        LET payload == [op |-> "update_note", note_id |-> note_id,
                        text |-> text, category |-> category]
        IN  IF invalid_note_category(category)
            THEN Unprocessable(t, payload)
            ELSE Begin(t, payload)

CallDeleteNote(t) ==
    \E note_id \in 1..MaxId :
        Begin(t, [op |-> "delete_note", note_id |-> note_id])

\* The categories notes requests name: two of the pattern and one outside
\* it.
OfferedNoteCategories == {"personal", "work", "urgent"}

Items == [title : {"m"}, description : {"x", "y"}, priority : {"hoch"}]
\* The categories requests name: two of the list and one outside it.
OfferedCategories == {"arbeitsplatz", "work_life_balance", "sonstiges"}

CallCreateMassnahme(t) ==
    \E category \in OfferedCategories, item \in Items :
        LET payload == [op |-> "create_massnahme", category |-> category,
                        item |-> item]
        IN  IF invalid_category(category)
            THEN Reject(t, payload)
            ELSE /\ Len(Get(_read_massnahmen(fs), category, <<>>)) < MaxItems
                 /\ Begin(t, payload)

CallUpdateMassnahme(t) ==
    \E category \in OfferedCategories, index \in -1..MaxItems, item \in Items :
        LET payload == [op |-> "update_massnahme", category |-> category,
                        index |-> index, item |-> item]
        IN  IF invalid_category(category)
            THEN Reject(t, payload)
            ELSE Begin(t, payload)

CallDeleteMassnahme(t) ==
    \E category \in OfferedCategories, index \in -1..MaxItems :
        LET payload == [op |-> "delete_massnahme", category |-> category,
                        index |-> index]
        IN  IF invalid_category(category)
            THEN Reject(t, payload)
            ELSE Begin(t, payload)

CallAddChatMessage(t, roles, texts) ==
    \E role \in roles, text \in texts :
        LET payload == [op |-> "add_chat_message", role |-> role,
                        text |-> text]
        IN  IF invalid_role(role)
            THEN Unprocessable(t, payload)
            ELSE /\ Len(_read_chat(fs).messages) < MaxMessages
                 /\ Begin(t, payload)

CallGet(t, ops) == \E op \in ops : Begin(t, [op |-> op])

\* ----------------------------------------------------- _ensure_file_exists
\* The files _ensure_file_exists looks after, in its order.
EnsuredFiles == <<EVENTS_FILE, NOTES_FILE, CHAT_FILE>>
CheckPc == <<"check_events", "check_notes", "check_chat">>
LockPc == <<"lock_events", "lock_notes", "lock_chat">>
InitPc == <<"init_events", "init_notes", "init_chat">>
AfterEnsure(i) == IF i < Len(EnsuredFiles) THEN CheckPc[i + 1] ELSE "lock_read"

\* if not FILE.exists(): outside the lock.
EnsureCheck(t) ==
    \E i \in 1..Len(EnsuredFiles) :
        /\ pc[t] = CheckPc[i]
        /\ pc' = [pc EXCEPT ![t] = IF Exists(fs, EnsuredFiles[i])
                                   THEN AfterEnsure(i) ELSE LockPc[i]]
        /\ UNCHANGED <<fs, file_lock, req, local, result, before, issued,
                     ai_response, response>>

\* with _file_lock:
EnsureAcquire(t) ==
    \E i \in 1..Len(EnsuredFiles) :
        /\ pc[t] = LockPc[i]
        /\ file_lock = "free"
        /\ file_lock' = t
        /\ pc' = [pc EXCEPT ![t] = InitPc[i]]
        /\ UNCHANGED <<fs, req, local, result, before, issued,
                     ai_response, response>>

\* EnsureInit that writes the default without looking at the file again.
EnsureInitUnchecked(t) ==
    \E i \in 1..Len(EnsuredFiles) :
        /\ pc[t] = InitPc[i]
        /\ fs' = [fs EXCEPT ![EnsuredFiles[i]] = DefaultText(EnsuredFiles[i])]
        /\ file_lock' = "free"
        /\ pc' = [pc EXCEPT ![t] = AfterEnsure(i)]
        /\ UNCHANGED <<req, local, result, before, issued,
                     ai_response, response>>

\* if not FILE.exists(): FILE.write_text(default), and the lock is released.
EnsureInit(t) ==
    \E i \in 1..Len(EnsuredFiles) :
        /\ pc[t] = InitPc[i]
        /\ fs' = IF Exists(fs, EnsuredFiles[i]) THEN fs
                 ELSE [fs EXCEPT ![EnsuredFiles[i]] = DefaultText(EnsuredFiles[i])]
        /\ file_lock' = "free"
        /\ pc' = [pc EXCEPT ![t] = AfterEnsure(i)]
        /\ UNCHANGED <<req, local, result, before, issued,
                     ai_response, response>>

\* ------------------------------------------------------- load, check, write
\* AcquireRead that enters the load without taking the lock.
AcquireReadUnlocked(t) ==
    /\ pc[t] = "lock_read"
    /\ pc' = [pc EXCEPT ![t] = "read"]
    /\ UNCHANGED <<fs, file_lock, req, local, result, before, issued,
                   ai_response, response>>

\* with _file_lock: of _read_events, _read_notes, _read_chat,
\* _read_massnahmen.
AcquireRead(t) ==
    /\ pc[t] = "lock_read"
    /\ file_lock = "free"
    /\ file_lock' = t
    /\ pc' = [pc EXCEPT ![t] = "read"]
    /\ UNCHANGED <<fs, req, local, result, before, issued,
                     ai_response, response>>

\* Read that returns without releasing the lock.
ReadHolding(t) ==
    /\ pc[t] = "read"
    /\ local' = [local EXCEPT ![t] = Load(req[t].op, fs)]
    /\ pc' = [pc EXCEPT ![t] =
                IF req[t].op = "add_chat_message" /\ req[t].role = "user"
                THEN "ai_lock_events" ELSE "loaded"]
    /\ UNCHANGED <<fs, file_lock, req, result, before, issued,
                   ai_response, response>>

\* The load under the lock; returning releases the lock.  add_chat_message
\* with a message of role "user" goes on to get_ai_chat_completion.
Read(t) ==
    /\ pc[t] = "read"
    /\ local' = [local EXCEPT ![t] = Load(req[t].op, fs)]
    /\ file_lock' = "free"
    /\ pc' = [pc EXCEPT ![t] =
                IF req[t].op = "add_chat_message" /\ req[t].role = "user"
                THEN "ai_lock_events" ELSE "loaded"]
    /\ UNCHANGED <<fs, req, result, before, issued,
                     ai_response, response>>

\* get_ai_chat_completion loads the events and the notes for its prompt:
\* _read_events(), then _read_notes().  Their _ensure_file_exists finds the
\* three files, which the handler's own load has ensured and nothing deletes.
AiLockPc == <<"ai_lock_events", "ai_lock_notes">>
AiReadPc == <<"ai_read_events", "ai_read_notes">>

\* with _file_lock: of the load
AiAcquire(t) ==
    \E i \in 1..Len(AiLockPc) :
        /\ pc[t] = AiLockPc[i]
        /\ file_lock = "free"
        /\ file_lock' = t
        /\ pc' = [pc EXCEPT ![t] = AiReadPc[i]]
        /\ UNCHANGED <<fs, req, local, result, before, issued,
                       ai_response, response>>

\* The load under the lock; what it returns goes into the prompt only.
AiRead(t) ==
    \E i \in 1..Len(AiReadPc) :
        /\ pc[t] = AiReadPc[i]
        /\ file_lock' = "free"
        /\ pc' = [pc EXCEPT ![t] = IF i < Len(AiLockPc) THEN AiLockPc[i + 1]
                                                       ELSE "ai_call"]
        /\ UNCHANGED <<fs, req, local, result, before, issued,
                       ai_response, response>>

\* client.chat.completions.create returns a text, or raises and the except
\* branch returns the apology; the lock is not held.
Complete(t) ==
    /\ pc[t] = "ai_call"
    /\ \E reply \in Replies :
          ai_response' = [ai_response EXCEPT ![t] = reply]
    /\ pc' = [pc EXCEPT ![t] = "loaded"]
    /\ UNCHANGED <<fs, file_lock, req, local, result, before, issued,
                   response>>

\* A handler of GetOps returns what it loaded.
Return(t) ==
    /\ pc[t] = "loaded"
    /\ req[t].op \in GetOps
    /\ Status(req[t], local[t]) = 200
    /\ result' = [result EXCEPT ![t] = 200]
    /\ response' = [response EXCEPT ![t] = Response(req[t], local[t])]
    /\ pc' = [pc EXCEPT ![t] = "done"]
    /\ UNCHANGED <<fs, file_lock, req, local, before, issued, ai_response>>

\* raise HTTPException, or an exception nothing handles: the handler ends
\* without writing.
Raise(t) ==
    /\ pc[t] = "loaded"
    /\ Status(req[t], local[t]) # 200
    /\ result' = [result EXCEPT ![t] = Status(req[t], local[t])]
    /\ pc' = [pc EXCEPT ![t] = "done"]
    /\ UNCHANGED <<fs, file_lock, req, local, before, issued, ai_response,
                   response>>

\* The handler changed its copy and reaches with _file_lock: of the write.
AcquireWrite(t) ==
    /\ pc[t] = "loaded"
    /\ req[t].op \notin GetOps
    /\ Status(req[t], local[t]) = 200
    /\ file_lock = "free"
    /\ file_lock' = t
    /\ pc' = [pc EXCEPT ![t] = "write"]
    /\ UNCHANGED <<fs, req, local, result, before, issued,
                     ai_response, response>>

\* Write that puts every document into notes.json.
WriteToNotes(t) ==
    LET document == Written(req[t], local[t], ai_response[t]) IN
    /\ pc[t] = "write"
    /\ fs' = [fs EXCEPT ![NOTES_FILE] = json_dumps(document)]
    /\ file_lock' = "free"
    /\ result' = [result EXCEPT ![t] =
                    IF responds(req[t], document) THEN 200 ELSE 500]
    /\ response' = [response EXCEPT ![t] =
                      IF responds(req[t], document)
                      THEN Response(req[t], document) ELSE <<>>]
    /\ pc' = [pc EXCEPT ![t] = "done"]
    /\ issued' = IF req[t].op = "create_note"
                 THEN issued \cup {local[t].next_id} ELSE issued
    /\ UNCHANGED <<req, local, before, ai_response>>

\* FILE.write_text(json.dumps(...)) under the lock, then the response.
Write(t) ==
    LET document == Written(req[t], local[t], ai_response[t]) IN
    /\ pc[t] = "write"
    /\ fs' = [fs EXCEPT ![FileOf(req[t].op)] = json_dumps(document)]
    /\ file_lock' = "free"
    /\ result' = [result EXCEPT ![t] =
                    IF responds(req[t], document) THEN 200 ELSE 500]
    /\ response' = [response EXCEPT ![t] =
                      IF responds(req[t], document)
                      THEN Response(req[t], document) ELSE <<>>]
    /\ pc' = [pc EXCEPT ![t] = "done"]
    /\ issued' = IF req[t].op = "create_note"
                 THEN issued \cup {local[t].next_id} ELSE issued
    /\ UNCHANGED <<req, local, before, ai_response>>

\* Path.write_text opens the file for writing, which empties it, and the
\* text is in the file when write_text returns: in between the file holds a
\* part of the text, which json.loads does not take for an object.
Partial == [kind |-> "partial"]

\* FILE.write_text(...) under the lock, as far as the open.
WriteOpen(t) ==
    /\ pc[t] = "write"
    /\ fs' = [fs EXCEPT ![FileOf(req[t].op)] = Partial]
    /\ pc' = [pc EXCEPT ![t] = "write_text"]
    /\ UNCHANGED <<file_lock, req, local, result, before, issued,
                   ai_response, response>>

\* The rest of FILE.write_text(...), the release of the lock and the
\* response.
WriteText(t) ==
    LET document == Written(req[t], local[t], ai_response[t]) IN
    /\ pc[t] = "write_text"
    /\ fs' = [fs EXCEPT ![FileOf(req[t].op)] = json_dumps(document)]
    /\ file_lock' = "free"
    /\ result' = [result EXCEPT ![t] =
                    IF responds(req[t], document) THEN 200 ELSE 500]
    /\ response' = [response EXCEPT ![t] =
                      IF responds(req[t], document)
                      THEN Response(req[t], document) ELSE <<>>]
    /\ pc' = [pc EXCEPT ![t] = "done"]
    /\ issued' = IF req[t].op = "create_note"
                 THEN issued \cup {local[t].next_id} ELSE issued
    /\ UNCHANGED <<req, local, before, ai_response>>

\* The steps of _ensure_file_exists.
Ensure(t) == EnsureCheck(t) \/ EnsureAcquire(t) \/ EnsureInit(t)

\* The steps of get_ai_chat_completion.
Ai(t) == AiAcquire(t) \/ AiRead(t) \/ Complete(t)

\* The steps of a handler that loads, checks and writes.
Step(t) ==
    \/ EnsureCheck(t)
    \/ EnsureAcquire(t)
    \/ EnsureInit(t)
    \/ AcquireRead(t)
    \/ Read(t)
    \/ Raise(t)
    \/ AcquireWrite(t)
    \/ Write(t)

\* --------------------------------------------------------- specifications
\* The whole program: every handler on every thread of the pool.
Next ==
    \E t \in Threads :
        \/ CallAddEvent(t, Days, Events)
        \/ CallDeleteEvent(t, Days)
        \/ CallCreateNote(t, Texts, NoteCategories)
        \/ CallUpdateNote(t, Texts, NoteCategories)
        \/ CallDeleteNote(t)
        \/ CallCreateMassnahme(t)
        \/ CallUpdateMassnahme(t)
        \/ CallDeleteMassnahme(t)
        \/ CallAddChatMessage(t, OfferedRoles, Texts)
        \/ CallGet(t, GetOps)
        \/ Step(t)
        \/ Ai(t)
        \/ Return(t)
Spec == Init /\ [][Next]_vars

\* The specifications below each serve one family of requests, so that
\* the reachable states of each can be enumerated.

\* Events requests served one at a time.
NextEvents ==
    CallAddEvent(Main, Days, Events) \/ CallDeleteEvent(Main, Days) \/ Step(Main)
SpecEvents == Init /\ [][NextEvents]_vars

\* Notes requests served one at a time.
NextNotes ==
    \/ CallCreateNote(Main, Texts, OfferedNoteCategories)
    \/ CallUpdateNote(Main, Texts, OfferedNoteCategories)
    \/ CallDeleteNote(Main)
    \/ Step(Main)
SpecNotes == Init /\ [][NextNotes]_vars

\* Massnahmen requests served one at a time.
NextMassnahmen ==
    \/ CallCreateMassnahme(Main)
    \/ CallUpdateMassnahme(Main)
    \/ CallDeleteMassnahme(Main)
    \/ Step(Main)
SpecMassnahmen == Init /\ [][NextMassnahmen]_vars

\* Events and notes requests served one at a time: events on Monday, deletes
\* aimed at either day, notes of one text and one category.
NextEventsNotes ==
    \/ CallAddEvent(Main, {"Monday"}, Events)
    \/ CallDeleteEvent(Main, Days)
    \/ CallCreateNote(Main, {"a"}, {"work"})
    \/ CallUpdateNote(Main, {"a"}, {"work"})
    \/ CallDeleteNote(Main)
    \/ Step(Main)
SpecEventsNotes == Init /\ [][NextEventsNotes]_vars

\* Two add_event requests, one per pool thread, served concurrently: the
\* threads interleave wherever _file_lock is not held.
NextAddRace ==
    \E t \in Racers :
        \/ pc[t] = "idle" /\ CallAddEvent(t, Days, Events)
        \/ Step(t)
SpecAddRace == Init /\ [][NextAddRace]_vars

\* Notes requests, one per pool thread, served concurrently.
NextNotesConcurrent ==
    \E t \in Threads :
        \/ pc[t] = "idle" /\ CallCreateNote(t, {"a"}, {"work"})
        \/ pc[t] = "idle" /\ CallUpdateNote(t, {"b"}, {"work"})
        \/ pc[t] = "idle" /\ CallDeleteNote(t)
        \/ Step(t)
SpecNotesConcurrent == Init /\ [][NextNotesConcurrent]_vars

\* Chat requests served one at a time.
NextChat ==
    \/ CallAddChatMessage(Main, OfferedRoles, Texts)
    \/ Ensure(Main)
    \/ AcquireRead(Main)
    \/ Read(Main)
    \/ Ai(Main)
    \/ AcquireWrite(Main)
    \/ Write(Main)
SpecChat == Init /\ [][NextChat]_vars

\* Two add_chat_message requests, one per pool thread, served concurrently.
NextChatRace ==
    \E t \in Racers :
        \/ pc[t] = "idle" /\ CallAddChatMessage(t, Roles, {"a"})
        \/ Ensure(t)
        \/ AcquireRead(t)
        \/ Read(t)
        \/ Ai(t)
        \/ AcquireWrite(t)
        \/ Write(t)
SpecChatRace == Init /\ [][NextChatRace]_vars

\* The four loads, served one at a time, of files that hold anything.
NextStored ==
    \/ CallGet(Main, GetOps)
    \/ Ensure(Main)
    \/ AcquireRead(Main)
    \/ Read(Main)
    \/ Return(Main)
    \/ Raise(Main)
SpecStored == InitStored(Files) /\ [][NextStored]_vars

\* Massnahmen requests served one at a time, massnahmen.json holding
\* anything at the start.
NextMassnahmenStored ==
    \/ CallGet(Main, {"get_massnahmen"})
    \/ NextMassnahmen
    \/ Return(Main)
SpecMassnahmenStored == InitStored({MASSNAHMEN_FILE}) /\ [][NextMassnahmenStored]_vars

\* Requests that add to each of the four documents, served one at a time:
\* events on Monday at hour 0, of either duration, notes of one text and one
\* category, assistant messages of one text.
NextRoundTrip ==
    \/ CallAddEvent(Main, {"Monday"},
                    {e \in Events : e.hour = 0})
    \/ CallCreateNote(Main, {"a"}, {"work"})
    \/ CallAddChatMessage(Main, {"assistant"}, {"a"})
    \/ CallCreateMassnahme(Main)
    \/ Step(Main)
SpecRoundTrip == Init /\ [][NextRoundTrip]_vars

\* An add_event, a create_note and an add_chat_message of role "user", one
\* per pool thread and two at a time, each write in its two steps.
NextPartialWrite ==
    \E t \in Racers :
        \/ pc[t] = "idle"
              /\ CallAddEvent(t, {"Monday"},
                              {e \in Events : e.hour = 0 /\ e.duration = 1})
        \/ pc[t] = "idle" /\ CallCreateNote(t, {"a"}, {"work"})
        \/ pc[t] = "idle" /\ CallAddChatMessage(t, {"user"}, {"a"})
        \/ Ensure(t)
        \/ AcquireRead(t)
        \/ Read(t)
        \/ Ai(t)
        \/ Raise(t)
        \/ AcquireWrite(t)
        \/ WriteOpen(t)
        \/ WriteText(t)
SpecPartialWrite == Init /\ [][NextPartialWrite]_vars

\* The steps of a handler once its request has arrived.
Handler(t) ==
    \/ Ensure(t)
    \/ AcquireRead(t)
    \/ Read(t)
    \/ Ai(t)
    \/ Return(t)
    \/ Raise(t)
    \/ AcquireWrite(t)
    \/ Write(t)

\* Loads, a create_note and an add_chat_message of role "user", one per
\* pool thread and two at a time, events.json or notes.json holding
\* anything at the start.  A pool thread that can take a step of its
\* handler takes one in the end: it runs the handler it has begun, and only
\* _file_lock makes it wait.
NextCompletion ==
    \E t \in Racers :
        \/ pc[t] = "idle" /\ CallGet(t, GetOps)
        \/ pc[t] = "idle" /\ CallCreateNote(t, {"a"}, {"work"})
        \/ pc[t] = "idle" /\ CallAddChatMessage(t, {"user"}, {"a"})
        \/ Handler(t)
SpecCompletion ==
    /\ InitStored({EVENTS_FILE, NOTES_FILE})
    /\ [][NextCompletion]_vars
    /\ \A t \in Racers : WF_vars(Handler(t))

\* Requests that add to and delete from the four documents, served one at
\* a time: one event on Monday at hour 0, notes of one text and one
\* category, user messages of one text, action items of one category.
NextResources ==
    \/ CallAddEvent(Main, {"Monday"},
                    {e \in Events : e.hour = 0 /\ e.duration = 1})
    \/ CallDeleteEvent(Main, {"Monday"})
    \/ CallCreateNote(Main, {"a"}, {"work"})
    \/ CallDeleteNote(Main)
    \/ CallAddChatMessage(Main, {"user"}, {"a"})
    \/ \E item \in {m \in Items : m.description = "x"} :
          /\ Len(_read_massnahmen(fs).arbeitsplatz) < MaxItems
          /\ Begin(Main, [op |-> "create_massnahme",
                          category |-> "arbeitsplatz", item |-> item])
    \/ Begin(Main, [op |-> "delete_massnahme", category |-> "arbeitsplatz",
                    index |-> 0])
    \/ Step(Main)
    \/ Ai(Main)
SpecResources == Init /\ [][NextResources]_vars

\* ------------------------------------------------------------- properties
\* The hours an event occupies: the half-open interval [hour, hour+duration).
Slots(event) == event.hour..(event.hour + event.duration - 1)

\* No two entries of one day share an hour.
NoOverlap(data) ==
    \A day \in DOMAIN data :
        \A i, j \in 1..Len(data[day]) :
            i # j => Slots(data[day][i]) \cap Slots(data[day][j]) = {}

\* C3: starting from an empty events document, after any sequence of
\* add_event and delete_event calls served one at a time, no two stored
\* events of a day have overlapping intervals [hour, hour+duration).
C3_NoOverlappingEvents == NoOverlap(_read_events(fs))

\* A day holds two events after a delete_event went through.
C3_Witness ==
    /\ pc[Main] = "done" /\ req[Main].op = "delete_event" /\ result[Main] = 200
    /\ \E day \in DOMAIN _read_events(fs) : Len(_read_events(fs)[day]) >= 2

\* C7: add_event(day, e) answers 400 exactly when some existing event (s, d)
\* of the day has e.hour < s+d and e.hour+e.duration > s, and succeeds
\* otherwise; an event that touches an existing one is accepted.
C7_ConflictIffOverlap ==
    \A t \in Threads :
        (pc[t] = "done" /\ req[t].op = "add_event") =>
            LET e == req[t].event
                existing == Get(before[t].events, req[t].day, <<>>)
                conflict == \E j \in 1..Len(existing) :
                                /\ e.hour < existing[j].hour + existing[j].duration
                                /\ e.hour + e.duration > existing[j].hour
                stored == Get(_read_events(fs), req[t].day, <<>>)
            IN  /\ result[t] = (IF conflict THEN 400 ELSE 200)
                /\ result[t] = 200 =>
                      /\ Len(stored) = Len(existing) + 1
                      /\ stored[Len(stored)] = e

\* An event was accepted that starts when an existing one ends and ends
\* when another existing one starts.
C7_Witness ==
    /\ pc[Main] = "done" /\ req[Main].op = "add_event" /\ result[Main] = 200
    /\ LET existing == Get(before[Main].events, req[Main].day, <<>>)
           e == req[Main].event
       IN  /\ \E j \in 1..Len(existing) :
                  existing[j].hour + existing[j].duration = e.hour
           /\ \E j \in 1..Len(existing) :
                  e.hour + e.duration = existing[j].hour

\* C10: starting from an empty events document, the persisted events
\* document never maps a day to an empty list; deleting the last event of a
\* day removes the day.
C10_NoEmptyDay ==
    /\ fs[EVENTS_FILE].kind = "dict" =>
          \A day \in DOMAIN fs[EVENTS_FILE].data :
              Len(fs[EVENTS_FILE].data[day]) > 0
    /\ \A t \in Threads :
          (/\ pc[t] = "done" /\ req[t].op = "delete_event" /\ result[t] = 200
           /\ Len(before[t].events[req[t].day]) = 1)
          => req[t].day \notin DOMAIN _read_events(fs)

\* The only event of a day was deleted while the other day holds one.
C10_Witness ==
    /\ pc[Main] = "done" /\ req[Main].op = "delete_event" /\ result[Main] = 200
    /\ Len(before[Main].events[req[Main].day]) = 1
    /\ DOMAIN _read_events(fs) # {}

\* C5: in any sequence of create_note, update_note and delete_note calls
\* served one at a time from the default notes document, every create_note
\* stores its note under an id greater than every id an earlier create_note
\* assigned, so the id of a deleted note is not assigned again.
C5_IdsStrictlyIncrease ==
    [][\A t \in Threads :
          (pc[t] = "write" /\ pc'[t] = "done" /\ req[t].op = "create_note") =>
              LET notes == _read_notes(fs').notes
              IN  /\ Len(notes) > 0
                  /\ \A i \in issued : notes[Len(notes)].id > i]_vars

\* A create_note went through after the note with an earlier id was deleted.
C5_Witness ==
    /\ pc[Main] = "done" /\ req[Main].op = "create_note" /\ result[Main] = 200
    /\ Cardinality(issued) >= 2
    /\ \E i \in issued :
          \A j \in 1..Len(_read_notes(fs).notes) : _read_notes(fs).notes[j].id # i

\* C9: create_massnahme, update_massnahme and delete_massnahme called with a
\* category outside {einmalige_massnahmen, arbeitsplatz, work_life_balance}
\* answer 400, whatever the index and the document, and leave every
\* category's list as it was.
C9_InvalidCategoryRejected ==
    \A t \in Threads :
        (/\ pc[t] = "done"
         /\ req[t].op \in {"create_massnahme", "update_massnahme", "delete_massnahme"}
         /\ req[t].category \notin
                {"einmalige_massnahmen", "arbeitsplatz", "work_life_balance"})
        => /\ result[t] = 400
           /\ _read_massnahmen(fs) = before[t].massnahmen
           /\ fs[MASSNAHMEN_FILE].kind = "dict" =>
                 DOMAIN fs[MASSNAHMEN_FILE].data \subseteq
                     {"einmalige_massnahmen", "arbeitsplatz", "work_life_balance"}

\* A request with a category outside the list was answered while the
\* document holds items and the request's index names one of them.
C9_Witness ==
    /\ pc[Main] = "done" /\ req[Main].op = "delete_massnahme"
    /\ req[Main].category = "sonstiges" /\ req[Main].index = 0
    /\ \A c \in {"arbeitsplatz", "work_life_balance"} :
          Len(_read_massnahmen(fs)[c]) > 0

\* C8: an events or notes request that fails (add_event with a conflict,
\* delete_event with an absent day or an index out of range, update_note or
\* delete_note with an unknown id) leaves the persisted events and notes
\* documents as they were when the request arrived.
C8_FailureChangesNothing ==
    \A t \in Threads :
        (/\ pc[t] = "done"
         /\ req[t].op \in {"add_event", "delete_event", "update_note", "delete_note"}
         /\ result[t] # 200)
        => /\ result[t] = (IF req[t].op = "add_event" THEN 400 ELSE 404)
           /\ _read_events(fs) = before[t].events
           /\ _read_notes(fs) = before[t].notes

\* A request failed while both documents hold entries.
C8_Witness ==
    /\ pc[Main] = "done" /\ result[Main] \in {400, 404}
    /\ _read_events(fs) # EmptyEvents
    /\ Len(_read_notes(fs).notes) > 0

\* C1: when add_event requests for the same day whose intervals overlap each
\* other run concurrently, at most one of them succeeds, the others answer
\* 400, and the persisted document never holds two overlapping events.
C1_AtMostOneSucceeds ==
    /\ NoOverlap(_read_events(fs))
    /\ \A t, u \in Threads :
          (/\ t # u
           /\ pc[t] = "done" /\ req[t].op = "add_event"
           /\ pc[u] = "done" /\ req[u].op = "add_event"
           /\ req[t].day = req[u].day
           /\ Slots(req[t].event) \cap Slots(req[u].event) # {})
          => \/ result[t] = 200 /\ result[u] = 400
             \/ result[t] = 400 /\ result[u] = 200

\* C2: each mutating handler is one atomic load-mutate-replace transaction:
\* between its load and its replace no other handler writes the document,
\* so when it comes to write, the persisted document is the one it loaded.
C2_NoWriteBetweenLoadAndReplace ==
    \A t \in Threads : pc[t] = "write" => Load(req[t].op, fs) = local[t]

\* C4: in every reachable state of the persisted notes document, concurrent
\* create_note calls included, no two notes have the same id.
C4_UniqueNoteIds ==
    fs[NOTES_FILE].kind = "dict" =>
        LET notes == fs[NOTES_FILE].data.notes
        IN  \A i, j \in 1..Len(notes) : i # j => notes[i].id # notes[j].id

\* Two create_note calls that loaded the same next_id both went through.
C4_Witness ==
    \E t, u \in Threads :
        /\ t # u
        /\ pc[t] = "done" /\ req[t].op = "create_note" /\ result[t] = 200
        /\ pc[u] = "done" /\ req[u].op = "create_note" /\ result[u] = 200
        /\ local[t].next_id = local[u].next_id
        /\ Len(_read_notes(fs).notes) > 0

\* C6: the persisted next_id never decreases from one persisted state to the
\* next, in any interleaving of create_note, update_note and delete_note.
C6_NextIdNeverDecreases ==
    [][_read_notes(fs').next_id >= _read_notes(fs).next_id]_vars

C12_UpdateNoteFrame ==
    \A t \in Threads :
        (/\ pc[t] = "done" /\ req[t].op = "update_note"
         /\ req[t].category \in {"personal", "work", "free time"}) =>
            LET old == before[t].notes
                new == _read_notes(fs)
                existing == \E j \in 1..Len(old.notes) :
                                old.notes[j].id = req[t].note_id
            IN  /\ existing <=> result[t] = 200
                /\ existing =>
                      /\ new.next_id = old.next_id
                      /\ Len(new.notes) = Len(old.notes)
                      /\ \A j \in 1..Len(old.notes) :
                            IF old.notes[j].id = req[t].note_id
                            THEN new.notes[j] = [id |-> req[t].note_id,
                                                 text |-> req[t].text,
                                                 category |-> req[t].category]
                            ELSE new.notes[j] = old.notes[j]

\* The first of three notes was given another text and another category.
C12_Witness ==
    /\ pc[Main] = "done" /\ req[Main].op = "update_note" /\ result[Main] = 200
    /\ Len(before[Main].notes.notes) = 3
    /\ before[Main].notes.notes[1].id = req[Main].note_id
    /\ before[Main].notes.notes[1].text # req[Main].text
    /\ before[Main].notes.notes[1].category # req[Main].category
    /\ before[Main].notes.notes[2].text # req[Main].text

\* C17: delete_massnahme(category, i) with a category of the list and
\* 0 <= i < len succeeds and leaves a list one shorter, the items below i
\* where they were and every item from i on being the one that was at the
\* next position, the other categories unchanged; with i outside [0, len) it
\* answers 404 and changes nothing.
C17_DeleteMassnahmeShift ==
    \A t \in Threads :
        (/\ pc[t] = "done" /\ req[t].op = "delete_massnahme"
         /\ req[t].category \in
                {"einmalige_massnahmen", "arbeitsplatz", "work_life_balance"}) =>
            LET old == before[t].massnahmen
                new == _read_massnahmen(fs)
                c == req[t].category
                i == req[t].index
            IN  IF 0 <= i /\ i < Len(old[c])
                THEN /\ result[t] = 200
                     /\ Len(new[c]) = Len(old[c]) - 1
                     /\ \A j \in 0..(Len(new[c]) - 1) :
                           new[c][j + 1] = IF j < i THEN old[c][j + 1]
                                                   ELSE old[c][j + 2]
                     /\ \A d \in DOMAIN old \ {c} : new[d] = old[d]
                ELSE /\ result[t] = 404
                     /\ new = old

\* The first of two different items was deleted while another category
\* holds an item.
C17_Witness ==
    /\ pc[Main] = "done" /\ req[Main].op = "delete_massnahme"
    /\ result[Main] = 200 /\ req[Main].index = 0
    /\ LET old == before[Main].massnahmen[req[Main].category]
       IN  Len(old) = 2 /\ old[1] # old[2]
    /\ \E c \in MassnahmenCategories \ {req[Main].category} :
          Len(_read_massnahmen(fs)[c]) > 0

\* C13 as stated: create_note called with a category outside {personal,
\* work, free time} does not fail and stores the new note with category
\* "personal".
C13_CategoryCoerced ==
    \A t \in Threads :
        (/\ pc[t] = "done" /\ req[t].op = "create_note"
         /\ req[t].category \notin {"personal", "work", "free time"})
        => /\ result[t] = 200
           /\ LET notes == _read_notes(fs).notes
              IN  /\ Len(notes) = Len(before[t].notes.notes) + 1
                  /\ notes[Len(notes)].category = "personal"

\* C13 as amended: create_note called with a category outside {personal,
\* work, free time} is answered 422 and stores no note: the notes document
\* stays as it was.
C13_CategoryRejected ==
    \A t \in Threads :
        (/\ pc[t] = "done" /\ req[t].op = "create_note"
         /\ req[t].category \notin {"personal", "work", "free time"})
        => /\ result[t] = 422
           /\ _read_notes(fs) = before[t].notes

\* A create_note with a category outside the set was answered while the
\* document holds notes.
C13_Witness ==
    /\ pc[Main] = "done" /\ req[Main].op = "create_note"
    /\ req[Main].category = "urgent"
    /\ Len(_read_notes(fs).notes) >= 2

\* C14: the persisted chat message sequence is append-only: over any
\* sequence and any concurrent interleaving of add_chat_message calls, every
\* earlier persisted message sequence is a prefix of every later one.
C14_ChatAppendOnly ==
    [][LET earlier == _read_chat(fs).messages
           later == _read_chat(fs').messages
       IN  /\ Len(earlier) <= Len(later)
           /\ SubSeq(later, 1, Len(earlier)) = earlier]_vars

\* C19 as stated: one add_chat_message(role, text) call extends the
\* persisted message sequence by exactly one message, {role, text}, for role
\* "user" as well as for role "assistant".
C19_AppendsOneMessage ==
    \A t \in Threads :
        (pc[t] = "done" /\ req[t].op = "add_chat_message" /\ result[t] = 200)
        => _read_chat(fs).messages =
              Append(before[t].chat.messages,
                     [role |-> req[t].role, text |-> req[t].text])

\* C19 as amended: one add_chat_message(role, text) call with role
\* "assistant" extends the message sequence it loaded by exactly one
\* message, {role, text}; with role "user" it extends it by two, {role,
\* text} followed by an assistant message holding the completion's reply.
C19_AppendsMessageAndReply ==
    [][\A t \in Threads :
          (/\ pc[t] = "write" /\ pc'[t] = "done"
           /\ req[t].op = "add_chat_message")
          => LET new == _read_chat(fs').messages
                 old == local[t].messages
                 own == [role |-> req[t].role, text |-> req[t].text]
             IN  /\ result'[t] = 200
                 /\ IF req[t].role = "assistant"
                    THEN new = old \o <<own>>
                    ELSE /\ Len(new) = Len(old) + 2
                         /\ SubSeq(new, 1, Len(old)) = old
                         /\ new[Len(old) + 1] = own
                         /\ new[Len(new)].role = "assistant"
                         /\ new[Len(new)].text \in Replies]_vars

\* A message of role "user" was added to a document that held a message.
C19_Witness ==
    /\ pc[Main] = "done" /\ req[Main].op = "add_chat_message"
    /\ req[Main].role = "user" /\ result[Main] = 200
    /\ Len(before[Main].chat.messages) > 0
    /\ Len(_read_chat(fs).messages) = Len(before[Main].chat.messages) + 2

\* C15: every load (_read_events, _read_notes, _read_chat, _read_massnahmen)
\* of a file that is absent, empty, not valid JSON, or a JSON value that is
\* not an object returns the resource's empty default document, and the
\* caller gets no error.
C15_UnreadableLoadsDefault ==
    LET unreadable(path) ==
            fs[path].kind \in {"absent", "empty", "invalid", "null", "array"}
        empty(path) ==
            CASE path = "events.json" -> <<>>
              [] path = "notes.json" -> [notes |-> <<>>, next_id |-> 1]
              [] path = "messages.json" -> [messages |-> <<>>]
              [] path = "massnahmen.json" ->
                    [einmalige_massnahmen |-> <<>>, arbeitsplatz |-> <<>>,
                     work_life_balance |-> <<>>]
    IN  /\ unreadable("events.json") => _read_events(fs) = empty("events.json")
        /\ unreadable("notes.json") => _read_notes(fs) = empty("notes.json")
        /\ unreadable("messages.json") => _read_chat(fs) = empty("messages.json")
        /\ unreadable("massnahmen.json")
              => _read_massnahmen(fs) = empty("massnahmen.json")
        /\ \A t \in Threads :
              (/\ pc[t] \in {"loaded", "done"} /\ req[t].op \in GetOps
               /\ unreadable(FileOf(req[t].op)))
              => /\ local[t] = empty(FileOf(req[t].op))
                 /\ pc[t] = "done" => result[t] = 200

\* get_chat has answered while messages.json holds a JSON array of messages.
C15_Witness ==
    /\ pc[Main] = "done" /\ req[Main].op = "get_chat" /\ result[Main] = 200
    /\ fs[CHAT_FILE].kind = "array" /\ Len(fs[CHAT_FILE].data) > 0

\* C16: the mapping returned by get_massnahmen and by every successful
\* create_massnahme, update_massnahme and delete_massnahme contains the three
\* categories einmalige_massnahmen, arbeitsplatz and work_life_balance, each
\* as a sequence, whatever keys the stored file has or lacks.
C16_AllCategoriesReturned ==
    \A t \in Threads :
        (/\ pc[t] = "done"
         /\ req[t].op \in {"get_massnahmen", "create_massnahme",
                            "update_massnahme", "delete_massnahme"})
        => /\ req[t].op = "get_massnahmen" => result[t] = 200
           /\ result[t] = 200 =>
                 /\ DOMAIN response[t] =
                        {"einmalige_massnahmen", "arbeitsplatz", "work_life_balance"}
                 /\ \A c \in DOMAIN response[t] : response[t][c] \in Seq(Items)
           /\ (req[t].op = "get_massnahmen" /\ fs[MASSNAHMEN_FILE].kind = "dict")
                 => \A c \in DOMAIN response[t] :
                       response[t][c] = IF c \in DOMAIN fs[MASSNAHMEN_FILE].data
                                        THEN fs[MASSNAHMEN_FILE].data[c]
                                        ELSE <<>>

\* An item was created in a file that held one category and a key outside
\* the list, and the response names the categories the file lacked.
C16_Witness ==
    /\ pc[Main] = "done" /\ req[Main].op = "create_massnahme"
    /\ result[Main] = 200
    /\ req[Main].category = "work_life_balance"
    /\ Len(before[Main].massnahmen["work_life_balance"]) = 0
    /\ Len(response[Main]["arbeitsplatz"]) = 1
    /\ Len(response[Main]["einmalige_massnahmen"]) = 0

\* C20: get_events never fails because of a malformed entry in the stored
\* events document: an entry that is not an object, or an object whose
\* fields are missing or invalid (no title, hour outside 0..23), is dropped
\* from the result and the remaining entries are returned.
C20_GetEventsLenient ==
    \A t \in Threads :
        (/\ pc[t] = "done" /\ req[t].op = "get_events"
         /\ fs[EVENTS_FILE].kind = "dict")
        => LET stored == fs[EVENTS_FILE].data
               wellformed(item) ==
                   /\ "json" \notin DOMAIN item
                   /\ "title" \in DOMAIN item /\ item.title # ""
                   /\ "hour" \in DOMAIN item /\ item.hour \in 0..23
           IN  /\ result[t] = 200
               /\ \A day \in DOMAIN stored :
                     /\ day \in DOMAIN response[t]
                     /\ Len(response[t][day]) =
                            Len(SelectSeq(stored[day], wellformed))

\* C18: for every well-formed document value of each resource (events,
\* notes, chat, action items), writing it with the resource's write helper
\* and then loading it with the resource's read helper returns a value equal
\* to the one written.
C18_RoundTrip ==
    [][\A t \in Threads :
          (pc[t] = "write" /\ pc'[t] = "done") =>
              LET written == Written(req[t], local[t], ai_response[t])
              IN  CASE FileOf(req[t].op) = EVENTS_FILE ->
                          _read_events(fs') = written
                    [] FileOf(req[t].op) = NOTES_FILE ->
                          _read_notes(fs') = written
                    [] FileOf(req[t].op) = CHAT_FILE ->
                          _read_chat(fs') = written
                    [] FileOf(req[t].op) = MASSNAHMEN_FILE ->
                          _read_massnahmen(fs') = written]_vars

\* Each of the four documents has been written and holds entries.
C18_Witness ==
    /\ pc[Main] = "done" /\ result[Main] = 200
    /\ fs[EVENTS_FILE].kind = "dict" /\ DOMAIN fs[EVENTS_FILE].data # {}
    /\ fs[NOTES_FILE].kind = "dict" /\ Len(fs[NOTES_FILE].data.notes) >= 2
    /\ fs[CHAT_FILE].kind = "dict" /\ Len(fs[CHAT_FILE].data.messages) >= 2
    /\ fs[MASSNAHMEN_FILE].kind = "dict"
    /\ Len(fs[MASSNAHMEN_FILE].data["arbeitsplatz"]) >= 2

\* C21: a handler that stands in the body of a load, of a write or of the
\* write of _ensure_file_exists holds _file_lock, and the file a load is
\* about to read, that of the handler or those of get_ai_chat_completion,
\* never holds a part of a text.
C21_ContentUnderLock ==
    \A t \in Threads :
        /\ pc[t] \in {"read", "write", "write_text"} => file_lock = t
        /\ \A i \in 1..Len(InitPc) : pc[t] = InitPc[i] => file_lock = t
        /\ \A i \in 1..Len(AiReadPc) : pc[t] = AiReadPc[i] => file_lock = t
        /\ pc[t] = "read" => fs[FileOf(req[t].op)].kind # Partial.kind
        /\ pc[t] = AiReadPc[1] => fs[EVENTS_FILE].kind # Partial.kind
        /\ pc[t] = AiReadPc[2] => fs[NOTES_FILE].kind # Partial.kind

\* A handler is in the middle of its write while another one waits at the
\* lock to load the same file, and get_ai_chat_completion has loaded the
\* events while the other thread stood at its write.
C21_Witness ==
    \E t \in Racers, u \in Racers :
        /\ t # u
        /\ pc[t] = "write_text"
        /\ fs[FileOf(req[t].op)].kind = Partial.kind
        /\ \/ pc[u] = "lock_read" /\ FileOf(req[u].op) = FileOf(req[t].op)
           \/ pc[u] = AiLockPc[1] /\ FileOf(req[t].op) = EVENTS_FILE

\* C22: delete_note(id) on an existing id answers 200 and removes the note
\* with that id and nothing else: the notes before it and after it are the
\* notes that were there, in their order, and next_id is unchanged; on an
\* id no note has it answers 404 and leaves the document as it was.
C22_DeleteNoteFrame ==
    \A t \in Threads :
        (pc[t] = "done" /\ req[t].op = "delete_note") =>
            LET old == before[t].notes
                new == _read_notes(fs)
                at == {j \in 1..Len(old.notes) :
                          old.notes[j].id = req[t].note_id}
            IN  /\ at # {} <=> result[t] = 200
                /\ at = {} => result[t] = 404 /\ new = old
                /\ \A j \in at :
                      /\ new.next_id = old.next_id
                      /\ Len(new.notes) = Len(old.notes) - 1
                      /\ \A k \in 1..Len(new.notes) :
                            new.notes[k] = IF k < j THEN old.notes[k]
                                           ELSE old.notes[k + 1]

\* The second of three notes was deleted.
C22_Witness ==
    /\ pc[Main] = "done" /\ req[Main].op = "delete_note"
    /\ result[Main] = 200
    /\ Len(before[Main].notes.notes) = 3
    /\ before[Main].notes.notes[2].id = req[Main].note_id
    /\ Len(_read_notes(fs).notes) = 2

\* C23: no step of _ensure_file_exists, whatever the other handlers have
\* done since its first look at the file, changes the text of a file that
\* exists, and none changes what a load of the four documents returns.
C23_EnsureKeepsDocuments ==
    [][\A t \in Threads : \A i \in 1..Len(EnsuredFiles) :
          (pc[t] \in {CheckPc[i], LockPc[i], InitPc[i]} /\ pc'[t] # pc[t]) =>
              /\ \A path \in Files :
                    Exists(fs, path) => fs'[path] = fs[path]
              /\ Documents(fs') = Documents(fs)]_vars

\* A handler found events.json missing, and holds the lock to create it
\* after another handler has created it and written an event to it.
C23_Witness ==
    \E t \in Racers :
        /\ pc[t] = InitPc[1]
        /\ file_lock = t
        /\ Exists(fs, EVENTS_FILE)
        /\ DOMAIN _read_events(fs) # {}

\* The positions of a handler inside a with _file_lock block.
HoldingPcs ==
    {"read", "write", "write_text"}
        \cup {InitPc[i] : i \in 1..Len(InitPc)}
        \cup {AiReadPc[i] : i \in 1..Len(AiReadPc)}

\* C24: a handler holds _file_lock only inside a with block, so never where
\* it acquires the lock and never after it has ended, and every handler
\* that has begun ends.
C24_DeadlockFree ==
    /\ [](\A t \in Threads : file_lock = t => pc[t] \in HoldingPcs)
    /\ \A t \in Threads : (pc[t] \notin {"idle", "done"}) ~> (pc[t] = "done")

\* A handler is in the body of a load whose json.loads raises, holding the
\* lock, while the other handler waits for the lock.
C24_Witness ==
    \E t \in Racers, u \in Racers :
        /\ t # u
        /\ pc[t] = "read" /\ file_lock = t
        /\ fs[FileOf(req[t].op)].kind = "invalid"
        /\ pc[u] \in {"lock_read", AiLockPc[1], AiLockPc[2]}

\* C25: no step of a handler changes the text of an existing file other
\* than the handler's own, nor what a load of another resource's document
\* returns; add_chat_message, which loads the events and the notes for the
\* completion, changes the chat document only.
C25_OwnDocumentOnly ==
    [][\A t \in Threads :
          (pc[t] \notin {"idle", "done"} /\ pc'[t] # pc[t]) =>
              LET own == FileOf(req[t].op)
                  old == Documents(fs)
                  new == Documents(fs')
              IN  /\ \A path \in Files \ {own} :
                        Exists(fs, path) => fs'[path] = fs[path]
                  /\ own # EVENTS_FILE => new.events = old.events
                  /\ own # NOTES_FILE => new.notes = old.notes
                  /\ own # CHAT_FILE => new.chat = old.chat
                  /\ own # MASSNAHMEN_FILE =>
                        new.massnahmen = old.massnahmen]_vars

\* add_chat_message has answered a user message while events, notes and
\* action items were stored, and they are as they were when it arrived.
C25_Witness ==
    /\ pc[Main] = "done" /\ req[Main].op = "add_chat_message"
    /\ req[Main].role = "user" /\ result[Main] = 200
    /\ Len(_read_chat(fs).messages) = Len(before[Main].chat.messages) + 2
    /\ DOMAIN before[Main].events # {}
    /\ Len(before[Main].notes.notes) > 0
    /\ Len(before[Main].massnahmen.arbeitsplatz) > 0
    /\ _read_events(fs) = before[Main].events
    /\ _read_notes(fs) = before[Main].notes
    /\ _read_massnahmen(fs) = before[Main].massnahmen

====
